---- MODULE Spec2Model ----
(***************************************************************************)
(* Model of custom_components/ha_strava/__init__.py: the webhook           *)
(* subscription reconciler (renew_webhook_subscription), the unload path   *)
(* (async_unload_entry), the webhook endpoint (StravaWebhookView.post),    *)
(* the activity fetch (fetch_strava_data) and the event listeners that     *)
(* async_setup_entry registers.                                            *)
(*                                                                         *)
(* Every coroutine is cut at its await points: one action is the code that *)
(* runs between two suspension points of the event loop.  An HTTP request  *)
(* and its response are one action of the awaiting task (the remote acts   *)
(* and answers at that moment).                                            *)
(*                                                                         *)
(* There is one specification per concern (see Specifications below); the  *)
(* actions of a concern leave the variables of the other concerns to the   *)
(* specification that combines them.                                       *)
(***************************************************************************)
EXTENDS Integers, Sequences, FiniteSets, Bags, TLC

(***************************************************************************)
(* Bounds                                                                  *)
(***************************************************************************)
\* the remote service hands out the subscription ids 1..MaxId, then refuses
MaxId == 2
\* number of renew_webhook_subscription coroutines that can be in flight at once
MaxTasks == 2
\* the page size asked of the remote service (MAX_NB_ACTIVITIES of const.py;
\* the fetch does not depend on its value)
MAX_NB_ACTIVITIES == 2
\* number of fetch_strava_data runs in a behaviour with overlapping fetches
MaxFetches == 2
\* number of times async_setup_entry runs in a behaviour
MaxSetups == 2

(***************************************************************************)
(* Values                                                                  *)
(***************************************************************************)
\* Python's None where an int is expected (self.webhook_id = None); no id of
\* the remote service and no subscription_id of a request takes this value
None == -1000
\* request.headers.get("Host", None) when the header is absent
NoHost == <<"None">>
\* get_url raises NoURLAvailableError
NoURL == <<"NoURLAvailableError">>
\* entry.data before any reconciliation has no callback url
NoCallback == <<>>

HTTP_OK == 200

\* URLs are sequences of tokens so that `x in self.host` can be computed
Urls == { <<"https://", "a.example">>, <<"https://", "b.example">> }

\* f"{ha_host}/api/strava/webhook"
CallbackUrl(ha_host) == ha_host \o <<"/api/strava/webhook">>

VARIABLES
    publicUrl,      \* what get_url(hass, allow_internal=False, allow_ip=False) yields
    subscriptions,  \* the remote service's subscriptions of the credential pair
    nextId,         \* the id the remote service gives to the next subscription
    entry,          \* entry.data: the persisted config record
    view,           \* the registered StravaWebhookView (host, webhook_id)
    task,           \* the bag of renew_webhook_subscription coroutines in flight
    unload,         \* the async_unload_entry coroutine
    lastRun,        \* history: the renew_webhook_subscription run that ended last
    lastPost,       \* history: the last request handled by StravaWebhookView.post
    fetches,        \* the bag of fetch_strava_data coroutines in flight
    started,        \* history: the number of fetch_strava_data runs started
    published,      \* history: the runs that called event_factory, in call order
    lastFetch,      \* history: the fetch_strava_data run that ended last
    startup,        \* what the renew_webhook_subscription in flight is awaited by
    bus             \* hass.bus listeners, hass.data[DOMAIN] and the entry's update listeners

\* the reconciler, the unload and the webhook endpoint
coreVars == <<publicUrl, subscriptions, nextId, entry, view, task, unload,
              lastRun, lastPost>>
\* the activity fetch
fetchVars == <<fetches, started, published, lastFetch>>

vars == <<publicUrl, subscriptions, nextId, entry, view, task, unload,
          lastRun, lastPost, fetches, started, published, lastFetch, startup, bus>>

(***************************************************************************)
(* The coroutines' records                                                 *)
(***************************************************************************)
\* a renew_webhook_subscription coroutine at its start
NewTask ==
    [ pc          |-> "start",     \* start, probe, list, delete, create
      config_data |-> [callback_url |-> NoCallback, webhook_id |-> None],
      calls       |-> <<>>,        \* history: the create/delete calls issued
      branch      |-> "none" ]     \* history: what the listing showed

\* the event loop's tasks with one coroutine resumed or ended
Resume(tk, new) == (task (-) SetToBag({tk})) (+) SetToBag({new})
End(tk)         == task (-) SetToBag({tk})

\* history: the record of a run that has ended; `created` is the id the create
\* call returned; the run called async_update_entry exactly when result = "True"
Ended(tk, result, created) ==
    [ config_data |-> tk.config_data, calls |-> tk.calls, branch |-> tk.branch,
      result |-> result, created |-> created ]

NoRun == Ended(NewTask, "pending", None)

\* existing_webhook_subscriptions[0] of a one-element list
First(existing) == CHOOSE s \in existing : TRUE

(***************************************************************************)
(* The event listeners of async_setup_entry                                *)
(***************************************************************************)
\* EVENT_HOMEASSISTANT_START, EVENT_CORE_CONFIG_UPDATE, CONF_STRAVA_RELOAD_EVENT,
\* CONF_STRAVA_CONFIG_UPDATE_EVENT
Signals == {"start", "core", "reload", "config"}

\* the listeners registered without looking at the bus
ListenGuard_Always(count) == TRUE

\* if hass.bus.async_listeners().get(EVENT, 0) < 1:
ListenGuard(count) == count < 1

\* what hass.bus.async_listen and entry.add_update_listener return: the
\* callable that removes the listener that setup number gen added
BusRemover(signal, gen) == [of |-> "bus", signal |-> signal, gen |-> gen]
UpdateRemover(gen)      == [of |-> "update", signal |-> "none", gen |-> gen]

\* hass.bus.async_listeners().get(EVENT, 0): every listener of the event, the
\* other components' ones included
ListenerCount(b, signal) == Len(b.listeners[signal]) + b.foreign[signal]

\* the bus before any async_setup_entry, with the other components' listeners
EmptyBus(foreign) ==
    [ foreign   |-> foreign,
      listeners |-> [signal \in Signals |-> <<>>],   \* per event, the setups whose handler listens
      update    |-> <<>>,                            \* the setups whose update listener is on the entry
      removers  |-> <<>>,                            \* hass.data[DOMAIN]["remove_update_listener"]
      gen       |-> 0,                               \* the number of setups so far
      fired     |-> [signal |-> "none", handlers |-> <<>>] ]  \* history: the last event and the handlers it called

NoForeign == [signal \in Signals |-> 0]

\* "# register event listeners" of async_setup_entry: the four guarded
\* async_listen calls, whose removers are appended to a list, and then the
\* assignment that replaces that list by the update listener's remover
RegisterListeners(b) ==
    LET gen == b.gen + 1
        registers(signal) == ListenGuard(ListenerCount(b, signal))
    IN  [ b EXCEPT
            !.gen       = gen,
            !.listeners = [ signal \in Signals |->
                              IF registers(signal) THEN Append(b.listeners[signal], gen)
                              ELSE b.listeners[signal] ],
            !.update    = Append(b.update, gen),
            !.removers  = <<UpdateRemover(gen)>> ]

RECURSIVE Without(_, _)
Without(seq, x) ==
    IF seq = <<>> THEN <<>>
    ELSE IF seq[1] = x THEN Without(Tail(seq), x)
    ELSE <<seq[1]>> \o Without(Tail(seq), x)

\* remove_listener() for one element of the list
Remove(b, remover) ==
    IF remover.of = "update"
    THEN [b EXCEPT !.update = Without(@, remover.gen)]
    ELSE [b EXCEPT !.listeners[remover.signal] = Without(@, remover.gen)]

\* for remove_listener in hass.data[DOMAIN]["remove_update_listener"]: remove_listener()
RECURSIVE RemoveAll(_, _)
RemoveAll(b, removers) ==
    IF removers = <<>> THEN b
    ELSE RemoveAll(Remove(b, removers[1]), Tail(removers))

(***************************************************************************)
(* Initial state: async_setup_entry has run once with a public URL; the    *)
(* remote holds no subscription or one left by an earlier run.             *)
(***************************************************************************)
HomeUrl == <<"https://", "a.example">>

InitSubscriptions ==
    { {} } \cup { {[id |-> 1, callback_url |-> CallbackUrl(u)]} : u \in Urls }

InitCore ==
    /\ publicUrl = HomeUrl
    /\ subscriptions \in InitSubscriptions
    /\ nextId = IF subscriptions = {} THEN 1 ELSE 2
    /\ entry \in { [callback_url |-> NoCallback, webhook_id |-> None] }
                 \cup { [callback_url |-> s.callback_url, webhook_id |-> s.id] :
                        s \in subscriptions }
    /\ view = [host |-> publicUrl, webhook_id |-> None]
    /\ task = EmptyBag
    /\ unload = [pc |-> "idle", target |-> None, result |-> "pending"]
    /\ lastRun = NoRun
    /\ lastPost = [handled |-> FALSE]

(***************************************************************************)
(* renew_webhook_subscription                                              *)
(***************************************************************************)
\* the statuses the collaborators may answer with
ProbeStatuses  == {200, 404}
DeleteStatuses == {204, 404}
CreateStatuses == {201, 400}

\* history: what the listing showed, read off the remote's answer itself
BranchOf(existing, callback_url) ==
    IF Cardinality(existing) = 0 THEN "zero"
    ELSE IF Cardinality(existing) > 1 THEN "many"
    ELSE IF First(existing).callback_url = callback_url THEN "same"
    ELSE "differ"

CreateCall(callback_url) == [op |-> "create", callback_url |-> callback_url, id |-> None]
DeleteCall(id)           == [op |-> "delete", callback_url |-> NoCallback, id |-> id]

\* the branch taken for any non-empty listing (>= 1 written for == 1)
ExactlyOne_AtLeastOne(existing) == Cardinality(existing) >= 1

\* if len(existing_webhook_subscriptions) == 1:
ExactlyOne(existing) == Cardinality(existing) = 1

\* the comparison inverted (== written for !=)
CallbackDiffers_Inverted(config_data, sub) == config_data.callback_url = sub.callback_url

\* config_data[CONF_CALLBACK_URL] != existing_webhook_subscriptions[0][CONF_CALLBACK_URL]
CallbackDiffers(config_data, sub) == config_data.callback_url # sub.callback_url

\* the returned id not stored into config_data
StoreCreatedId_Dropped(config_data, id) == config_data

\* config_data[CONF_WEBHOOK_ID] = post_response_content["id"]
StoreCreatedId(config_data, id) == [config_data EXCEPT !.webhook_id = id]

\* `return` (None) out of renew_webhook_subscription: nothing is persisted
Abort(tk, new) ==
    /\ task' = End(tk)
    /\ lastRun' = Ended(new, "None", None)
    /\ UNCHANGED entry

\* hass.config_entries.async_update_entry(entry=entry, data=config_data); return True
Succeed(tk, new, created) ==
    /\ task' = End(tk)
    /\ lastRun' = Ended(new, "True", created)
    /\ entry' = new.config_data

\* The coroutine from its start to its first await: config_data = {**entry.data},
\* get_url, the callback url, and the self-probe request sent.
StartReconcile(url, max) ==
    /\ BagCardinality(task) < max
    /\ LET fresh == [NewTask EXCEPT !.config_data = entry]
       IN  IF url = NoURL
           THEN /\ lastRun' = Ended(fresh, "None", None)
                /\ UNCHANGED task
           ELSE /\ task' = task (+) SetToBag({
                       [fresh EXCEPT !.pc = "probe",
                                     !.config_data.callback_url = CallbackUrl(url)]})
                /\ UNCHANGED lastRun
    /\ UNCHANGED entry

\* strava_startup_functions, the coroutine that ha_start_handler (on
\* EVENT_HOMEASSISTANT_START) and component_reload_handler (on
\* CONF_STRAVA_RELOAD_EVENT) create: it awaits renew_webhook_subscription first
StartupFunctions(max) ==
    /\ StartReconcile(publicUrl, max)
    /\ UNCHANGED <<publicUrl, subscriptions, nextId, view, unload, lastPost>>

\* EVENT_CORE_CONFIG_UPDATE with "external_url" in event.data ->
\* core_config_update_handler -> renew_webhook_subscription
CoreConfigUpdate(url, max) ==
    /\ StartReconcile(url, max)
    /\ publicUrl' = url
    /\ UNCHANGED <<subscriptions, nextId, view, unload, lastPost>>

\* callback_response = await websession.get(url=config_data[CONF_CALLBACK_URL])
ProbeResponse(tk, status) ==
    /\ tk.pc = "probe"
    /\ IF status # 200
       THEN Abort(tk, tk)
       ELSE /\ task' = Resume(tk, [tk EXCEPT !.pc = "list"])
            /\ UNCHANGED <<entry, lastRun>>
    /\ UNCHANGED <<publicUrl, subscriptions, nextId, view, unload, lastPost>>

\* The answer to the listing and the branch on its length, up to the next
\* await (the delete or the create request) or to the end of the coroutine.
ListResponse(tk) ==
    /\ tk.pc = "list"
    /\ LET existing == subscriptions
           seen == [tk EXCEPT !.branch = BranchOf(existing, tk.config_data.callback_url)]
       IN  IF ExactlyOne(existing)
           THEN LET sub == First(existing)
                    cfg == [tk.config_data EXCEPT !.webhook_id = sub.id]
                IN  IF CallbackDiffers(cfg, sub)
                    THEN /\ task' = Resume(tk,
                                [seen EXCEPT !.config_data = cfg, !.pc = "delete",
                                             !.calls = Append(@, DeleteCall(cfg.webhook_id))])
                         /\ UNCHANGED <<entry, lastRun>>
                    ELSE Succeed(tk, [seen EXCEPT !.config_data = cfg], None)
           ELSE IF Cardinality(existing) = 0
           THEN /\ task' = Resume(tk,
                       [seen EXCEPT !.pc = "create",
                                    !.calls = Append(@, CreateCall(tk.config_data.callback_url))])
                /\ UNCHANGED <<entry, lastRun>>
           ELSE Abort(tk, seen)
    /\ UNCHANGED <<publicUrl, subscriptions, nextId, view, unload, lastPost>>

\* delete_response = await websession.delete(...): the remote answers 204 when it
\* removed the subscription; then existing_webhook_subscriptions = [] (never read
\* again) and control leaves the if/elif chain for async_update_entry.
DeleteResponse(tk, status) ==
    /\ tk.pc = "delete"
    /\ status = 204 => \E s \in subscriptions : s.id = tk.config_data.webhook_id
    /\ IF status = 204
       THEN /\ subscriptions' = {s \in subscriptions : s.id # tk.config_data.webhook_id}
            /\ Succeed(tk, tk, None)
       ELSE /\ Abort(tk, tk)
            /\ UNCHANGED subscriptions
    /\ UNCHANGED <<publicUrl, nextId, view, unload, lastPost>>

\* post_response = await websession.post(...): the remote answers 201 with the
\* new subscription's id.
CreateResponse(tk, status) ==
    /\ tk.pc = "create"
    /\ status = 201 => nextId <= MaxId
    /\ IF status = 201
       THEN /\ subscriptions' = subscriptions \cup
                   {[id |-> nextId, callback_url |-> tk.config_data.callback_url]}
            /\ nextId' = nextId + 1
            /\ Succeed(tk, [tk EXCEPT !.config_data = StoreCreatedId(@, nextId)], nextId)
       ELSE /\ Abort(tk, tk)
            /\ UNCHANGED <<subscriptions, nextId>>
    /\ UNCHANGED <<publicUrl, view, unload, lastPost>>

(***************************************************************************)
(* async_unload_entry                                                      *)
(***************************************************************************)
\* The listing of async_unload_entry and the branch on its length.  The event
\* handlers stay on the bus (the list of their removers is overwritten at the
\* end of async_setup_entry), so the events above keep firing after an unload.
UnloadList ==
    /\ unload.pc = "idle"
    /\ unload' = IF Cardinality(subscriptions) = 1
                 THEN [unload EXCEPT !.pc = "delete", !.target = First(subscriptions).id]
                 ELSE [unload EXCEPT !.pc = "done", !.result = "False"]
    /\ UNCHANGED <<publicUrl, subscriptions, nextId, entry, view, task, lastRun, lastPost>>

\* delete_response = await websession.delete(...) of async_unload_entry
UnloadDeleteResponse(status) ==
    /\ unload.pc = "delete"
    /\ status = 204 => \E s \in subscriptions : s.id = unload.target
    /\ IF status = 204
       THEN /\ subscriptions' = {s \in subscriptions : s.id # unload.target}
            /\ unload' = [unload EXCEPT !.pc = "done", !.target = None, !.result = "True"]
       ELSE /\ unload' = [unload EXCEPT !.pc = "done", !.target = None, !.result = "False"]
            /\ UNCHANGED subscriptions
    /\ UNCHANGED <<publicUrl, nextId, entry, view, task, lastRun, lastPost>>

(***************************************************************************)
(* StravaWebhookView.post                                                  *)
(***************************************************************************)
HTTP_INTERNAL_SERVER_ERROR == 500

\* the Host headers of the requests: NoHost for a request without one, <<>>
\* for a header with an empty value
RequestHosts == { NoHost, <<>>, <<"a.example">>, <<"c.example">> }

\* the bodies of the requests: not JSON at all, a JSON array, or a JSON object
\* whose subscription_id is absent, an int, a string that is no number, or null
Bodies(ids) ==
    { [kind |-> "notjson", field |-> "absent", n |-> 0],
      [kind |-> "array",   field |-> "absent", n |-> 0],
      [kind |-> "object",  field |-> "absent", n |-> 0],
      [kind |-> "object",  field |-> "badstr", n |-> 0],
      [kind |-> "object",  field |-> "null",   n |-> 0] }
    \cup { [kind |-> "object", field |-> "int", n |-> i] : i \in ids }

\* data = await request.json(); webhook_id = int(data.get("subscription_id", -1)),
\* with only JSONDecodeError caught
ParseSubscriptionId(body) ==
    CASE body.kind = "notjson"  -> [raised |-> FALSE, webhook_id |-> -1]
      [] body.kind = "array"    -> [raised |-> TRUE,  webhook_id |-> -1]  \* AttributeError
      [] body.field = "absent"  -> [raised |-> FALSE, webhook_id |-> -1]
      [] body.field = "int"     -> [raised |-> FALSE, webhook_id |-> body.n]
      [] OTHER                  -> [raised |-> TRUE,  webhook_id |-> -1]  \* ValueError, TypeError

\* Python's `x in y` on strings, on the token sequences that stand for them
IsSubstring(x, y) ==
    \E i \in 0..(Len(y) - Len(x)) : SubSeq(y, i + 1, i + Len(x)) = x

\* webhook_id == self.webhook_id or request_host in self.host
\* ("raise": `None in str` is a TypeError)
Dispatch(webhook_id, request_host, v) ==
    IF webhook_id = v.webhook_id THEN "yes"
    ELSE IF request_host = NoHost THEN "raise"
    ELSE IF IsSubstring(request_host, v.host) THEN "yes"
    ELSE "no"

\* One request through the handler; an exception that leaves it is answered 500
Post(request_host, body) ==
    /\ LET parsed == ParseSubscriptionId(body)
           go     == IF parsed.raised THEN "raise"
                     ELSE Dispatch(parsed.webhook_id, request_host, view)
       IN  lastPost' = [ handled    |-> TRUE,
                         host       |-> request_host,
                         body       |-> body,
                         webhook_id |-> parsed.webhook_id,
                         stored     |-> entry.webhook_id,
                         known_host |-> view.host,
                         scheduled  |-> IF go = "yes" THEN 1 ELSE 0,
                         status     |-> IF go = "raise" THEN HTTP_INTERNAL_SERVER_ERROR
                                        ELSE HTTP_OK ]
    /\ UNCHANGED <<publicUrl, subscriptions, nextId, entry, view, task, unload,
                   lastRun>>

\* the subscription ids the requests carry: the stored one and one never handed out
RequestIds == ({entry.webhook_id} \ {None}) \cup {0}

(***************************************************************************)
(* fetch_strava_data                                                       *)
(***************************************************************************)
\* a key the remote's JSON object does not have: dict.get yields the default
Absent == -2000
\* a value the conversion applied to it rejects: float(None), int("abc"),
\* dt.strptime of a string in another format
Malformed == -3000
\* activity.get("start_date_local", "2000-01-01T00:00:00Z"), as a timestamp
\* that precedes every start date the remote reports
DefaultDate == 0
\* activity.get("distance", -1)
DefaultDistance == -1

\* what the remote may put in an activity: its start date and its distance
\* (the other fields converted with float and int are read as the distance is)
DateInputs     == {Absent, Malformed, 1, 2}
DistanceInputs == {Absent, Malformed, 5}
ActivityInputs == [start_date_local : DateInputs, distance : DistanceInputs]
\* activities that convert, for the behaviours with overlapping fetches
PlainActivities == [start_date_local : {1}, distance : {5}]

\* the bodies the geocoder answers with: not JSON, or a JSON object with a
\* city, with a name but no city, or with neither
GeoBodies == {"notjson", "city", "name", "neither"}

\* city = geo_location.get("city", None); if city: city, else
\* geo_location.get("name", "Paradise City")
CityOf(geo) ==
    CASE geo = "city" -> "Springfield"
      [] geo = "name" -> "Main Street"
      [] OTHER        -> "Paradise City"

ListsUpTo(n, S) == UNION { [1..k -> S] : k \in 0..n }

\* what the remote answers to the listing: an error status, a body that is no
\* JSON, or a list of at most per_page activities
ListAnswers(per_page, inputs) ==
    { [status |-> 401, kind |-> "error",   activities |-> <<>>],
      [status |-> 200, kind |-> "notjson", activities |-> <<>>] }
    \cup { [status |-> 200, kind |-> "list", activities |-> l] :
           l \in ListsUpTo(per_page, inputs) }

\* the listing asked for without a page size: the remote's own, larger, page
PerPage_RemoteDefault == MAX_NB_ACTIVITIES + 1

\* f"...athlete/activities?per_page={MAX_NB_ACTIVITIES}"
PerPage == MAX_NB_ACTIVITIES

\* a fetch_strava_data coroutine at its first await, the n-th run started
NewFetch(n, origin) ==
    [ n          |-> n,
      origin     |-> origin,       \* post, startup, listener
      pc         |-> "list",       \* list, geo
      per_page   |-> PerPage,
      status     |-> 0,            \* history: the status of the listing
      parsed     |-> FALSE,        \* history: json.loads of the listing returned
      activities |-> <<>>,
      cities     |-> <<>>,
      publishes  |-> 0 ]           \* history: the calls of event_factory

\* history: the record of a run that has ended; outcome is "done" (the end of
\* the function was reached), "returned" (the early return) or "raised"
Fetched(f, outcome, out) ==
    [ n |-> f.n, origin |-> f.origin, status |-> f.status, parsed |-> f.parsed,
      activities |-> f.activities, cities |-> f.cities, publishes |-> f.publishes,
      outcome |-> outcome, out |-> out ]

NoFetch == Fetched(NewFetch(0, "none"), "pending", <<>>)

\* float(...), int(...) and dt.strptime(...) of one activity raise
Raises(activity) ==
    \/ activity.start_date_local = Malformed
    \/ activity.distance = Malformed

\* one element of the list comprehension
Normalize(activity, city) ==
    [ city     |-> city,
      distance |-> IF activity.distance = Absent THEN DefaultDistance
                   ELSE activity.distance,
      date     |-> IF activity.start_date_local = Absent THEN DefaultDate
                   ELSE activity.start_date_local ]

NormalizeAll(activities, cities) ==
    [ idx \in 1..Len(activities) |-> Normalize(activities[idx], cities[idx]) ]

\* Python's sorted on the date key: a stable sort, each element placed
\* behind the elements that do not come after it in the order asked for
InsertSorted(t, x, reverse) ==
    LET k == Cardinality({ i \in 1..Len(t) :
                           IF reverse THEN t[i].date >= x.date
                                      ELSE t[i].date <= x.date })
    IN  SubSeq(t, 1, k) \o <<x>> \o SubSeq(t, k + 1, Len(t))

RECURSIVE Sorted(_, _)
Sorted(s, reverse) ==
    IF s = <<>> THEN <<>>
    ELSE InsertSorted(Sorted(SubSeq(s, 1, Len(s) - 1), reverse), s[Len(s)], reverse)

\* the sort without reverse=True
SortActivities_Ascending(s) == Sorted(s, FALSE)

\* sorted([...], key=lambda activity: activity[CONF_SENSOR_DATE], reverse=True)
SortActivities(s) == Sorted(s, TRUE)

\* the error branch calling the event factory as well
ErrorReturn_Publishes(f) == [f EXCEPT !.publishes = @ + 1]

\* else: _LOGGER.error(...); return
ErrorReturn(f) == f

\* the event factory called only by the first run that gets there
Publish_Deduplicated(log, f) == IF log = <<>> THEN Append(log, f.n) ELSE log

\* history: self.event_factory({"activities": activities}) called by run f
Publish(log, f) == Append(log, f.n)

\* hass.async_create_task(self.fetch_strava_data()), up to its first await
StartFetch(origin, max) ==
    /\ started < max
    /\ started' = started + 1
    /\ fetches' = fetches (+) SetToBag({NewFetch(started + 1, origin)})
    /\ UNCHANGED <<published, lastFetch>>

\* the coroutine that was f at its last await ends as g
FetchEnds(f, g, outcome, out) ==
    /\ fetches' = fetches (-) SetToBag({f})
    /\ lastFetch' = Fetched(g, outcome, out)
    /\ UNCHANGED started

\* the end of fetch_strava_data once every activity has its city: the list
\* comprehension, the sort and the event (f is the coroutine at its last
\* await, g the coroutine now)
Finish(f, g) ==
    IF \E idx \in 1..Len(g.activities) : Raises(g.activities[idx])
    THEN /\ FetchEnds(f, g, "raised", <<>>)
         /\ UNCHANGED published
    ELSE /\ FetchEnds(f, [g EXCEPT !.publishes = @ + 1], "done",
                      SortActivities(NormalizeAll(g.activities, g.cities)))
         /\ published' = Publish(published, g)

\* activities_response = await websession.get(...) and what follows up to the
\* next await
FetchListResponse(f, answer) ==
    /\ f.pc = "list"
    /\ LET g == [f EXCEPT !.status = answer.status]
       IN  IF answer.status # HTTP_OK
           THEN /\ FetchEnds(f, ErrorReturn(g), "returned", <<>>)
                /\ UNCHANGED published
           ELSE IF answer.kind = "notjson"
           THEN /\ FetchEnds(f, g, "raised", <<>>)      \* json.JSONDecodeError
                /\ UNCHANGED published
           ELSE LET h == [g EXCEPT !.parsed = TRUE, !.activities = answer.activities,
                                   !.pc = "geo"]
                IN  IF answer.activities = <<>>
                    THEN Finish(f, h)
                    ELSE /\ fetches' = (fetches (-) SetToBag({f})) (+) SetToBag({h})
                         /\ UNCHANGED <<started, published, lastFetch>>

\* geo_location_response = await websession.get(...) for the next activity and
\* what follows up to the next await
FetchGeoResponse(f, geo) ==
    /\ f.pc = "geo"
    /\ IF geo = "notjson"
       THEN /\ FetchEnds(f, f, "raised", <<>>)          \* json.JSONDecodeError
            /\ UNCHANGED published
       ELSE LET h == [f EXCEPT !.cities = Append(@, CityOf(geo))]
            IN  IF Len(h.cities) = Len(h.activities)
                THEN Finish(f, h)
                ELSE /\ fetches' = (fetches (-) SetToBag({f})) (+) SetToBag({h})
                     /\ UNCHANGED <<started, published, lastFetch>>

Fetching == BagToSet(fetches)
\* the coroutines that await the listing
Listing  == { f \in Fetching : f.pc = "list" }

(***************************************************************************)
(* Specifications                                                          *)
(***************************************************************************)
InFlight == BagToSet(task)

InitFetch ==
    /\ fetches = EmptyBag
    /\ started = 0
    /\ published = <<>>
    /\ lastFetch = NoFetch

\* no strava_startup_functions coroutine awaits a reconciliation
NoStartup ==
    [ pc       |-> "none",    \* none, startup (strava_startup_functions awaits), renew (nothing awaits)
      signals  |-> 0,         \* history: the strava_startup_functions coroutines created
      returned |-> 0,         \* history: those whose renew_webhook_subscription has returned
      result   |-> "pending" ]  \* history: what it returned to the last of them

Init ==
    /\ InitCore
    /\ InitFetch
    /\ startup = NoStartup
    /\ bus = RegisterListeners(EmptyBus(NoForeign))

\* a step of the reconciler, the unload or the webhook endpoint alone
Core(A) == A /\ UNCHANGED <<fetches, started, published, lastFetch, startup, bus>>

\* the reconciler, its overlapping runs and the unload
Next ==
    \/ Core(StartupFunctions(MaxTasks))
    \/ \E url \in Urls \cup {NoURL} : Core(CoreConfigUpdate(url, MaxTasks))
    \/ \E tk \in InFlight, status \in ProbeStatuses : Core(ProbeResponse(tk, status))
    \/ \E tk \in InFlight : Core(ListResponse(tk))
    \/ \E tk \in InFlight, status \in DeleteStatuses : Core(DeleteResponse(tk, status))
    \/ \E tk \in InFlight, status \in CreateStatuses : Core(CreateResponse(tk, status))
    \/ Core(UnloadList)
    \/ \E status \in DeleteStatuses : Core(UnloadDeleteResponse(status))

Spec == Init /\ [][Next]_vars

\* the webhook endpoint, with the reconciler's runs one after the other
NextWebhook ==
    \/ Core(StartupFunctions(1))
    \/ \E url \in Urls \cup {NoURL} : Core(CoreConfigUpdate(url, 1))
    \/ \E tk \in InFlight, status \in ProbeStatuses : Core(ProbeResponse(tk, status))
    \/ \E tk \in InFlight : Core(ListResponse(tk))
    \/ \E tk \in InFlight, status \in DeleteStatuses : Core(DeleteResponse(tk, status))
    \/ \E tk \in InFlight, status \in CreateStatuses : Core(CreateResponse(tk, status))
    \/ \E request_host \in RequestHosts, body \in Bodies(RequestIds) :
          Core(Post(request_host, body))

SpecWebhook == Init /\ [][NextWebhook]_vars

\* a step of a fetch_strava_data coroutine alone
Fetch(A) == A /\ UNCHANGED <<coreVars, startup, bus>>

\* self.hass.async_create_task(self.fetch_strava_data()) of the handler
PostFetch(request_host, body, max) ==
    /\ Post(request_host, body)
    /\ IF lastPost'.scheduled = 1
       THEN StartFetch("post", max)
       ELSE UNCHANGED fetchVars
    /\ UNCHANGED <<startup, bus>>

\* the body of a webhook event that names no subscription
EventBody == [kind |-> "object", field |-> "absent", n |-> 0]

\* one fetch started by the webhook endpoint, with every answer of the remote
\* service and of the geocoder
NextFetch ==
    \/ \E request_host \in {<<"a.example">>, <<"c.example">>} :
          PostFetch(request_host, EventBody, 1)
    \/ \E f \in Listing : \E answer \in ListAnswers(f.per_page, ActivityInputs) :
          Fetch(FetchListResponse(f, answer))
    \/ \E f \in Fetching, geo \in GeoBodies : Fetch(FetchGeoResponse(f, geo))

\* the remote holds no subscription yet
InitFresh == Init /\ subscriptions = {}

SpecFetch == InitFresh /\ [][NextFetch]_vars

\* core_config_update_handler for an event with "unit_system" in its data:
\* hass.async_create_task(strava_webhook_view.fetch_strava_data())
UnitSystemUpdate(max) ==
    /\ bus.listeners["core"] # <<>>
    /\ StartFetch("unit_system", max)

\* the options of the entry change: strava_config_update_helper fires
\* CONF_STRAVA_CONFIG_UPDATE_EVENT, strava_config_update_handler creates the
\* task of async_strava_config_update_handler, which awaits the fetch
StravaConfigUpdate(max) ==
    /\ bus.update # <<>>
    /\ bus.listeners["config"] # <<>>
    /\ StartFetch("config", max)

\* the answers to the listing when the athlete has one activity or none
ShortAnswers == ListAnswers(1, PlainActivities)

\* fetches started by the webhook endpoint and by the listeners while others
\* are in flight
NextRace ==
    \/ PostFetch(<<"a.example">>, EventBody, MaxFetches)
    \/ Fetch(UnitSystemUpdate(MaxFetches))
    \/ Fetch(StravaConfigUpdate(MaxFetches))
    \/ \E f \in Listing, answer \in ShortAnswers : Fetch(FetchListResponse(f, answer))
    \/ \E f \in Fetching, geo \in GeoBodies : Fetch(FetchGeoResponse(f, geo))

SpecRace == InitFresh /\ [][NextRace]_vars

\* the fetch awaited only when the reconciliation returned True
StartupFetches_OnSuccess(result) == result = "True"

\* strava_startup_functions does not look at what renew_webhook_subscription
\* returns: await renew_webhook_subscription(...); await fetch_strava_data()
StartupFetches(result) == TRUE

\* a step of the one renew_webhook_subscription coroutine in flight, which
\* `awaiter` awaits (`created` strava_startup_functions coroutines are created
\* in this step); when it returns to strava_startup_functions, that coroutine
\* goes on to fetch_strava_data in the same step
Renewal(A, awaiter, created) ==
    /\ A
    /\ UNCHANGED bus
    /\ IF task' # EmptyBag
       THEN /\ startup' = [startup EXCEPT !.pc = awaiter, !.signals = @ + created]
            /\ UNCHANGED fetchVars
       ELSE IF awaiter = "startup"
       THEN /\ startup' = [startup EXCEPT !.pc = "none", !.signals = @ + created,
                                          !.returned = @ + 1,
                                          !.result = lastRun'.result]
            /\ IF StartupFetches(lastRun'.result)
               THEN StartFetch("startup", MaxFetches)
               ELSE UNCHANGED fetchVars
       ELSE /\ startup' = [startup EXCEPT !.pc = "none"]
            /\ UNCHANGED fetchVars

\* ha_start_handler and component_reload_handler:
\* hass.async_create_task(strava_startup_functions())
StartupSignal(signal) ==
    /\ bus.listeners[signal] # <<>>
    /\ startup.signals < MaxFetches
    /\ Renewal(StartupFunctions(1), "startup", 1)

\* the answers to the listing when the athlete has no activity
EmptyAnswers == ListAnswers(0, PlainActivities)

\* the host start and the reload of the component, with the reconciler's runs
\* one after the other
NextStartup ==
    \/ \E signal \in {"start", "reload"} : StartupSignal(signal)
    \/ \E url \in Urls \cup {NoURL} : Renewal(CoreConfigUpdate(url, 1), "renew", 0)
    \/ \E tk \in InFlight, status \in ProbeStatuses :
          Renewal(ProbeResponse(tk, status), startup.pc, 0)
    \/ \E tk \in InFlight : Renewal(ListResponse(tk), startup.pc, 0)
    \/ \E tk \in InFlight, status \in DeleteStatuses :
          Renewal(DeleteResponse(tk, status), startup.pc, 0)
    \/ \E tk \in InFlight, status \in CreateStatuses :
          Renewal(CreateResponse(tk, status), startup.pc, 0)
    \/ \E f \in Listing, answer \in EmptyAnswers : Fetch(FetchListResponse(f, answer))

SpecStartup == Init /\ [][NextStartup]_vars

\* a step of async_setup_entry, async_unload_entry or the event bus that
\* leaves the bus as b
Lifecycle(A, b) == A /\ bus' = b /\ UNCHANGED <<fetches, started, published, lastFetch, startup>>

\* async_unload_entry up to the answer to its listing: the removers in
\* hass.data[DOMAIN]["remove_update_listener"] are called first
UnloadStart == Lifecycle(UnloadList, RemoveAll(bus, bus.removers))

\* async_unload_entry from the answer to its delete call: del hass.data[DOMAIN]
\* is reached when the answer is 204
UnloadEnd(status) ==
    Lifecycle(UnloadDeleteResponse(status),
              IF status = 204 THEN [bus EXCEPT !.removers = <<>>] ELSE bus)

\* async_setup_entry for the entry that was unloaded: a new view for the
\* public URL of the moment, and the listeners
SetupEntry ==
    /\ unload.pc = "done"
    /\ unload.result = "True"
    /\ bus.gen < MaxSetups
    /\ publicUrl # NoURL
    /\ view' = [host |-> publicUrl, webhook_id |-> None]
    /\ unload' = [pc |-> "idle", target |-> None, result |-> "pending"]
    /\ bus' = RegisterListeners(bus)
    /\ UNCHANGED <<publicUrl, subscriptions, nextId, entry, task, lastRun, lastPost,
                   fetches, started, published, lastFetch, startup>>

\* history: an event on the bus and the handlers hass.bus calls for it; the
\* options event is fired by strava_config_update_helper, the entry's update
\* listener
Fire(signal) ==
    /\ signal = "config" => bus.update # <<>>
    /\ bus' = [bus EXCEPT !.fired = [signal |-> signal, handlers |-> bus.listeners[signal]]]
    /\ UNCHANGED <<coreVars, fetches, started, published, lastFetch, startup>>

\* the other components' listeners when async_setup_entry runs first: some
\* on the host's events, none on the component's own
Foreigns == { foreign \in [Signals -> {0, 1}] : foreign["reload"] = 0 /\ foreign["config"] = 0 }

InitLifecycle ==
    /\ InitCore
    /\ InitFetch
    /\ startup = NoStartup
    /\ \E foreign \in Foreigns : bus = RegisterListeners(EmptyBus(foreign))

\* setups and unloads of the entry and the events on the bus (the coroutines
\* that the handlers create are followed in the specifications above)
NextLifecycle ==
    \/ UnloadStart
    \/ \E status \in DeleteStatuses : UnloadEnd(status)
    \/ SetupEntry
    \/ \E signal \in Signals : Fire(signal)

SpecLifecycle == InitLifecycle /\ [][NextLifecycle]_vars

(***************************************************************************)
(* Properties                                                              *)
(***************************************************************************)
\* a step in which a renew_webhook_subscription coroutine ends; lastRun' is
\* then the record of that run
RunEnds == BagCardinality(task') < BagCardinality(task)

\* a step in which a run ends with `return True`
RunSucceeds == RunEnds /\ lastRun'.result = "True"

\* C1: a run that found one subscription with another callback url, and ended
\* in success, issued exactly one delete call and then exactly one create call
\* for its callback url, and the id it stored is the created id.
C1_DeleteThenCreate ==
    (lastRun.branch = "differ" /\ lastRun.result = "True") =>
        /\ Len(lastRun.calls) = 2
        /\ lastRun.calls[1].op = "delete"
        /\ lastRun.calls[2] = CreateCall(lastRun.config_data.callback_url)
        /\ lastRun.created # None
        /\ lastRun.config_data.webhook_id = lastRun.created

\* C2: when a run ends in success, exactly one subscription exists at the
\* remote, its callback url is the run's callback url, and the config record
\* holds that subscription's id and callback url.
C2_SuccessLeavesOneSubscription ==
    [][ RunSucceeds =>
          \E s \in subscriptions' :
              /\ subscriptions' = {s}
              /\ s.callback_url = lastRun'.config_data.callback_url
              /\ entry'.webhook_id = s.id
              /\ entry'.callback_url = s.callback_url ]_vars

\* C3: only a run ending in success changes the config record, and the pair it
\* writes is the id and callback url of a subscription that exists remotely at
\* the moment of the write.
C3_NoPartialPersistence ==
    [][ /\ ~RunSucceeds => entry' = entry
        /\ RunSucceeds =>
              \E s \in subscriptions' :
                  /\ s.id = entry'.webhook_id
                  /\ s.callback_url = entry'.callback_url ]_vars

\* the last run returned True for the public URL that is still the current one
Converged ==
    /\ lastRun.result = "True"
    /\ lastRun.config_data.callback_url = CallbackUrl(publicUrl)

\* C4: with the runs one after the other, a run that follows a successful run
\* for the same public URL is a no-op: it issues no create and no delete call
\* and leaves the remote subscriptions and the config record as they are.
C4_RepeatIsNoOp ==
    [][ (Converged /\ task # EmptyBag) =>
          /\ subscriptions' = subscriptions
          /\ entry' = entry
          /\ \A tk \in BagToSet(task') : tk.calls = <<>> ]_vars

\* C5: a POST with a Host header whose subscription_id is the id stored in the
\* config record schedules the fetch once, whatever the Host header is.
C5_StoredIdSchedulesFetch ==
    ( /\ lastPost.handled
      /\ lastPost.host # NoHost
      /\ lastPost.body.kind = "object"
      /\ lastPost.body.field = "int"
      /\ lastPost.stored # None
      /\ lastPost.body.n = lastPost.stored ) => lastPost.scheduled = 1

\* C6: every POST is answered with status 200.
C6_AlwaysOk == lastPost.handled => lastPost.status = HTTP_OK

\* C7: the remote never holds more than one subscription.
C7_AtMostOneSubscription == Cardinality(subscriptions) <= 1

\* C8: a run that found no subscription and ends in success issued exactly one
\* create call, for its callback url, and no delete call; the id written to
\* the config record is the id the create call returned, which is the id of
\* the subscription the remote added for that callback url.
C8_ZeroExistingCreatesOnce ==
    [][ (RunSucceeds /\ lastRun'.branch = "zero") =>
          /\ lastRun'.calls = <<CreateCall(entry'.callback_url)>>
          /\ lastRun'.created # None
          /\ entry'.webhook_id = lastRun'.created
          /\ subscriptions' \ subscriptions =
                 {[id |-> lastRun'.created, callback_url |-> entry'.callback_url]} ]_vars

C8_Witness ==
    /\ lastRun.branch = "zero"
    /\ lastRun.result = "True"
    /\ entry.webhook_id = lastRun.created

\* C9: a run that found two or more subscriptions ends there with a bare
\* return: no create call, no delete call, the remote subscriptions and the
\* config record untouched.
C9_ManyExistingAborts ==
    [][ (RunEnds /\ lastRun'.branch = "many") =>
          /\ lastRun'.calls = <<>>
          /\ lastRun'.result = "None"
          /\ subscriptions' = subscriptions
          /\ entry' = entry ]_vars

C9_Witness ==
    /\ lastRun.branch = "many"
    /\ lastRun.result = "None"
    /\ Cardinality(subscriptions) >= 2

\* C10: a run that found one subscription whose callback url is its own
\* issues no create and no delete call and leaves the remote subscriptions
\* as they are.
C10_SameCallbackIsNoOp ==
    [][ (RunEnds /\ lastRun'.branch = "same") =>
          /\ lastRun'.calls = <<>>
          /\ subscriptions' = subscriptions ]_vars

C10_Witness ==
    /\ lastRun.branch = "same"
    /\ lastRun.result = "True"
    /\ lastRun.calls = <<>>
    /\ Cardinality(subscriptions) = 1

\* the host of a URL: the URL without its scheme
HostOf(url) == SubSeq(url, 2, Len(url))

\* C11: a POST schedules the fetch only if its subscription_id is the known
\* subscription id (the view's or the config record's) or its Host header is
\* the host of the view's public URL.
C11_OnlyKnownSenderSchedules ==
    (lastPost.handled /\ lastPost.scheduled = 1) =>
        \/ lastPost.webhook_id = view.webhook_id
        \/ lastPost.stored # None /\ lastPost.webhook_id = lastPost.stored
        \/ lastPost.host = HostOf(lastPost.known_host)

\* the run that ended last has ended (there is one)
FetchEnded == lastFetch.outcome # "pending"

\* the number of times run n called the event factory, read off the log
Published(n) == Cardinality({ i \in DOMAIN published : published[i] = n })

\* C12: a fetch that reached the end of fetch_strava_data called the event
\* factory exactly once; a fetch that ended otherwise, and every fetch whose
\* listing was not answered 200, never called it.
C12_PublishOnceOnSuccess ==
    FetchEnded =>
        /\ Published(lastFetch.n) = lastFetch.publishes
        /\ lastFetch.outcome = "done" => lastFetch.publishes = 1
        /\ lastFetch.outcome # "done" => lastFetch.publishes = 0
        /\ lastFetch.status # HTTP_OK =>
              /\ lastFetch.outcome = "returned"
              /\ lastFetch.publishes = 0

C12_Witness ==
    /\ lastFetch.outcome = "done"
    /\ lastFetch.publishes = 1
    /\ Len(lastFetch.out) >= 1
    /\ published = <<lastFetch.n>>

\* C13: no fetch ends with an exception: whatever the remote service and the
\* geocoder answer, fetch_strava_data returns.
C13_NoExceptionEscapes == lastFetch.outcome # "raised"

\* C14: a fetch whose listing was answered 200 with a JSON list publishes one
\* list with one entry per activity of the listing, whatever the fields of the
\* activities and the answers of the geocoder are.
C14_OneEntryPerActivity ==
    (FetchEnded /\ lastFetch.status = HTTP_OK /\ lastFetch.parsed) =>
        /\ lastFetch.outcome = "done"
        /\ lastFetch.publishes = 1
        /\ Len(lastFetch.out) = Len(lastFetch.activities)

\* C15: a published list has at most MAX_NB_ACTIVITIES entries.
C15_AtMostMaxActivities ==
    lastFetch.outcome = "done" => Len(lastFetch.out) <= MAX_NB_ACTIVITIES

C15_Witness ==
    /\ lastFetch.outcome = "done"
    /\ Len(lastFetch.activities) = MAX_NB_ACTIVITIES
    /\ Len(lastFetch.out) = MAX_NB_ACTIVITIES

SeqToBag(s) ==
    [ x \in { s[i] : i \in DOMAIN s } |-> Cardinality({ i \in DOMAIN s : s[i] = x }) ]

\* C16: a published list is in descending order of start date and holds the
\* normalized activities of the listing, each as often as the listing does.
C16_SortedPermutation ==
    lastFetch.outcome = "done" =>
        /\ \A i, j \in DOMAIN lastFetch.out :
              i < j => lastFetch.out[i].date >= lastFetch.out[j].date
        /\ SeqToBag(lastFetch.out)
             = SeqToBag(NormalizeAll(lastFetch.activities, lastFetch.cities))

\* the listing came oldest first and was published newest first
C16_Witness ==
    /\ lastFetch.outcome = "done"
    /\ Len(lastFetch.out) >= 2
    /\ lastFetch.activities[1].start_date_local = 1
    /\ lastFetch.activities[2].start_date_local = 2
    /\ lastFetch.out[1].date = 2
    /\ lastFetch.out[2].date = 1

\* C19: fetches in flight at once do not hinder each other: no run calls the
\* event factory twice, a run in flight has not called it yet, and a run that
\* reached the end of fetch_strava_data has called it exactly once, whatever
\* the other runs did.  The witness is a later-started run whose event comes
\* before the event of an earlier-started one.
C19_OverlappingFetchesPublish ==
    /\ \A n \in 1..started : Published(n) <= 1
    /\ \A f \in Fetching : Published(f.n) = 0
    /\ lastFetch.outcome = "done" => Published(lastFetch.n) = 1
    /\ Len(published) <= started

C19_Witness ==
    /\ started >= 2
    /\ Len(published) >= 2
    /\ published[1] > published[2]

C17_AtMostOneListener ==
    /\ \A signal \in Signals : Len(bus.listeners[signal]) <= 1
    /\ Len(bus.fired.handlers) <= 1
    /\ Len(bus.update) <= 1

\* an event that calls its one handler after the second setup
C17_Witness ==
    /\ bus.gen >= 2
    /\ bus.fired.signal # "none"
    /\ Len(bus.listeners[bus.fired.signal]) = 1
    /\ Len(bus.fired.handlers) = 1

\* C20: once async_unload_entry has called the removers, no listener that
\* async_setup_entry put on the bus is left there.
C20_UnloadRemovesListeners ==
    unload.pc # "idle" => \A signal \in Signals : bus.listeners[signal] = <<>>

====
